---------------------------- MODULE Spec2Model ----------------------------
(***************************************************************************)
(* MorningGlow (src/morningglow.py, the live code from line 928 on): the   *)
(* keyword classifiers, the content pipeline, the story guarantee and the  *)
(* daily flow, as state machines.                                          *)
(*                                                                         *)
(* Python str values are TLA+ strings; substring tests, lower-casing and   *)
(* the f-string join are computed on the characters.  A dict field holds   *)
(* Missing (key absent), None, Str(s) or List(l).                          *)
(***************************************************************************)
EXTENDS Integers, Sequences, FiniteSets, TLC

\* ----------------------------------------------------------------- values
Missing == <<"missing">>
None == <<"None">>
Str(s) == <<"str", s>>
List(l) == <<"list", l>>

IsStr(v) == v[1] = "str"
IsList(v) == v[1] = "list"

\* dict.get(key, default): the default only when the key is absent.
get(article, key, default) ==
  IF article[key] = Missing THEN default ELSE article[key]

\* Python truth value of None, a str or a list.
Truthy(v) ==
  CASE IsStr(v) -> v[2] # ""
    [] IsList(v) -> v[2] # <<>>
    [] OTHER -> FALSE

\* A variant of Or that keeps its left operand, as `article.get(key)` without
\* `or ''` does.
Or_left(v, w) == v

\* Python `v or w`.
Or(v, w) == IF Truthy(v) THEN v ELSE w

\* An exception raised out of a call that otherwise returns a pair.
Raised(e) == <<e>>

\* ------------------------------------------------------------------ str
UPPERCASE == "ABCDEFGHIJKLMNOPQRSTUVWXYZ"
LOWERCASE == "abcdefghijklmnopqrstuvwxyz"

\* The lower-case letter of each upper-case letter.
lower_map ==
  [c \in {SubSeq(UPPERCASE, i, i) : i \in 1..Len(UPPERCASE)} |->
     LET i == CHOOSE j \in 1..Len(UPPERCASE) : SubSeq(UPPERCASE, j, j) = c
     IN SubSeq(LOWERCASE, i, i)]

lower_char(c) == IF c \in DOMAIN lower_map THEN lower_map[c] ELSE c

\* str.lower(), character by character (the string is split in halves to
\* keep the evaluation shallow).
RECURSIVE lower(_)
lower(s) ==
  IF Len(s) <= 1 THEN lower_char(s)
  ELSE LET half == Len(s) \div 2
       IN lower(SubSeq(s, 1, half)) \o lower(SubSeq(s, half + 1, Len(s)))

\* Python `k in t` on two str.
Substring(k, t) ==
  \/ k = ""
  \/ \E i \in 1..(Len(t) - Len(k) + 1) : SubSeq(t, i, i + Len(k) - 1) = k

\* re.search(pattern, text, re.IGNORECASE) for the patterns of this file,
\* none of which holds a regex metacharacter.
re_search(pattern, text) == Substring(lower(pattern), lower(text))

\* any(re.search(pattern, text, re.IGNORECASE) for pattern in patterns), the
\* patterns given lower-cased.
any_search(lower_patterns, text) ==
  LET lower_text == lower(text)
  IN \E i \in 1..Len(lower_patterns) : Substring(lower_patterns[i], lower_text)

\* [keyword.lower() for keyword in keywords]
lower_all(keywords) == [i \in 1..Len(keywords) |-> lower(keywords[i])]

\* any(keyword in text for keyword in keywords)
any_in(keywords, text) ==
  \E i \in 1..Len(keywords) : Substring(keywords[i], text)

\* ------------------------------------------------ FactualAccuracyGuardian
SPECULATION_KEYWORDS ==
  <<
    "might", "could", "may", "possibly", "allegedly", "rumor", "rumour", "unconfirmed",
    "speculation", "claims without evidence", "anonymous sources", "insider says",
    "reportedly", "sources say", "could be", "might be", "potential", "preliminary",
    "early study", "early results"
  >>

CLICKBAIT_PATTERNS ==
  <<
    "you won't believe", "shocking", "miracle cure", "doctors hate", "one weird trick",
    "this will blow your mind", "secret that", "what happens next"
  >>

UNVERIFIED_MEDICAL_KEYWORDS ==
  <<
    "breakthrough cure", "miracle treatment", "revolutionary cure", "cancer cured",
    "aging reversed"
  >>

VERIFICATION_MARKERS ==
  <<
    "study published", "peer-reviewed", "fda approved", "clinical trial",
    "research shows", "scientists confirm", "university study", "official announcement",
    "government confirms", "peer reviewed"
  >>

\* The patterns as re.IGNORECASE matches them.
CLICKBAIT_PATTERNS_LOWER == lower_all(CLICKBAIT_PATTERNS)

\* The lower-cased title, description and content, joined by single spaces
\* (the same four lines open all three checks).
full_text(article) ==
  LET title == lower(Or(get(article, "title", None), Str(""))[2])
      description == lower(Or(get(article, "description", None), Str(""))[2])
      content == lower(Or(get(article, "content", None), Str(""))[2])
  IN title \o " " \o description \o " " \o content

\* (article.get(key) or '').lower() raises AttributeError for a value that is
\* not a str.
lower_raises(article) ==
  \E key \in {"title", "description", "content"} :
    ~IsStr(Or(get(article, key, None), Str("")))

\* A variant of has_speculation that needs three keywords to reject.
has_speculation_from_three(text) ==
  Cardinality({i \in 1..Len(SPECULATION_KEYWORDS) :
                 Substring(SPECULATION_KEYWORDS[i], text)}) >= 3

\* A variant of unverified_medical_claim that looks for no verification marker.
unverified_medical_claim_unrescued(text) ==
  any_in(UNVERIFIED_MEDICAL_KEYWORDS, text)

\* A variant of missing_source without the 'Unknown' sentinel.
missing_source_no_sentinel(article) ==
  ~Truthy(get(article, "source", None))

\* The five checks of check_factual_accuracy, in its order.
\* any(keyword in full_text for keyword in self.SPECULATION_KEYWORDS)
has_speculation(text) == any_in(SPECULATION_KEYWORDS, text)

\* A variant of has_clickbait that a verification marker switches off.
has_clickbait_unless_verified(text) ==
  /\ any_search(CLICKBAIT_PATTERNS_LOWER, text)
  /\ ~any_in(VERIFICATION_MARKERS, text)

\* The loop over CLICKBAIT_PATTERNS finds a match.
has_clickbait(text) == any_search(CLICKBAIT_PATTERNS_LOWER, text)

\* A medical keyword and not has_verification.
unverified_medical_claim(text) ==
  /\ any_in(UNVERIFIED_MEDICAL_KEYWORDS, text)
  /\ ~any_in(VERIFICATION_MARKERS, text)

\* not article.get('source') or article.get('source') == 'Unknown'
missing_source(article) ==
  LET source == get(article, "source", None)
  IN ~Truthy(source) \/ source = Str("Unknown")

\* not article.get('url')
missing_url(article) == ~Truthy(get(article, "url", None))

\* A variant of check_factual_accuracy that looks at the source and the url
\* before it looks at the text.
check_factual_accuracy_source_first(article) ==
  IF lower_raises(article) THEN Raised("AttributeError") ELSE
  LET text == full_text(article)
  IN IF missing_source(article)
       THEN <<FALSE, "Missing legitimate source">>
     ELSE IF missing_url(article)
       THEN <<FALSE, "Missing source URL">>
     ELSE IF has_speculation(text)
       THEN <<FALSE, "Contains speculation or unverified claims">>
     ELSE IF has_clickbait(text)
       THEN <<FALSE, "Contains clickbait patterns">>
     ELSE IF unverified_medical_claim(text)
       THEN <<FALSE, "Medical claim without verification markers">>
     ELSE <<TRUE, "Factually accurate">>

\* check_factual_accuracy: <<is_accurate, reason>>, or the exception raised.
check_factual_accuracy(article) ==
  IF lower_raises(article) THEN Raised("AttributeError") ELSE
  LET text == full_text(article)
  IN IF has_speculation(text)
       THEN <<FALSE, "Contains speculation or unverified claims">>
     ELSE IF has_clickbait(text)
       THEN <<FALSE, "Contains clickbait patterns">>
     ELSE IF unverified_medical_claim(text)
       THEN <<FALSE, "Medical claim without verification markers">>
     ELSE IF missing_source(article)
       THEN <<FALSE, "Missing legitimate source">>
     ELSE IF missing_url(article)
       THEN <<FALSE, "Missing source URL">>
     ELSE <<TRUE, "Factually accurate">>

\* A variant of filter_accurate_articles that drops nothing.
filter_accurate_articles_all(articles) == articles

\* filter_accurate_articles: the accurate articles, in order, unmodified.
filter_accurate_articles(articles) ==
  SelectSeq(articles, LAMBDA article : check_factual_accuracy(article)[1])

\* The logger.debug lines of filter_accurate_articles, one per rejection.
filter_accurate_log(articles) ==
  LET rejected == SelectSeq(articles, LAMBDA article : ~check_factual_accuracy(article)[1])
  IN [i \in 1..Len(rejected) |-> check_factual_accuracy(rejected[i])[2]]

\* -------------------------------------------------- EmotionalSafetyFilter
CATEGORY_KEYWORDS ==
  <<
    [category |-> "environment_healing",
     keywords |-> <<
         "coral reef restoration", "nature recovery", "reforestation",
         "wildlife conservation", "species protection", "ocean healing",
         "habitat restoration", "ecological program", "conservation success",
         "endangered species", "biodiversity", "ecosystem recovery", "marine sanctuary",
         "forest regrowth", "clean water", "pollution reduction", "rewilding",
         "nature preserve", "wildlife sanctuary", "green spaces"
       >>],
    [category |-> "medical_hope",
     keywords |-> <<
         "clinical trial success", "fda approval", "treatment advancement",
         "recovery outcome", "health improvement", "medical breakthrough",
         "new therapy", "disease treatment", "patient recovery", "healthcare success",
         "medical innovation", "healing", "cure approved", "treatment approved",
         "life-saving", "health victory"
       >>],
    [category |-> "peace_harmony",
     keywords |-> <<
         "peace agreement", "ceasefire", "diplomatic resolution", "conflict resolution",
         "unity", "cooperation", "reconciliation", "harmony", "agreement reached",
         "neighbors unite", "community peace", "collaboration", "partnership",
         "nations agree", "treaty signed", "peaceful solution"
       >>],
    [category |-> "human_kindness",
     keywords |-> <<
         "stranger helps", "volunteer", "charity success", "rescue", "kindness",
         "compassion", "donation", "community support", "heartwarming",
         "good samaritan", "helping hand", "generous", "fundraiser success",
         "community gives", "neighbors help", "act of kindness", "paying it forward",
         "good deed"
       >>],
    [category |-> "education_wins",
     keywords |-> <<
         "scholarship", "student achievement", "teacher inspires", "learning program",
         "educational success", "graduation", "literacy program", "school success",
         "educational innovation", "students excel", "academic achievement",
         "mentorship program", "tutoring success", "educational opportunity"
       >>],
    [category |-> "women_empowerment",
     keywords |-> <<
         "women-led", "female leadership", "women scientists", "women creators",
         "women entrepreneurs", "women in stem", "female founder", "women innovators",
         "women breaking barriers", "female pioneers", "women achieve",
         "women empowerment", "girls education", "women leaders"
       >>],
    [category |-> "ethical_innovation",
     keywords |-> <<
         "renewable energy", "sustainable technology", "green technology",
         "clean energy", "accessibility technology", "assistive technology",
         "environmental technology", "solar power", "wind energy", "electric vehicle",
         "sustainable engineering", "carbon reduction", "eco-friendly innovation",
         "tech for good"
       >>],
    [category |-> "art_culture",
     keywords |-> <<
         "museum", "art exhibition", "cultural festival", "heritage conservation",
         "children art", "creative project", "artistic community",
         "cultural celebration", "music festival", "dance performance", "theater",
         "gallery opening", "cultural heritage", "art installation", "creative workshop"
       >>],
    [category |-> "feel_good",
     keywords |-> <<
         "heartwarming", "uplifting", "inspiring", "beautiful", "joyful", "celebration",
         "happiness", "wonderful", "amazing story", "touching", "delightful",
         "precious moment", "feel-good", "wholesome", "adorable"
       >>]
  >>

REJECT_KEYWORDS ==
  <<
    "crisis", "shortage", "suicide", "violence", "shooting", "attack", "murder", "war",
    "combat", "battle", "conflict", "crime", "corruption", "scandal", "controversy",
    "disaster", "catastrophe", "emergency", "threat", "danger", "fear", "terror",
    "tragic", "death toll", "casualties", "victim", "collapse", "crash", "failure",
    "bankruptcy", "layoff", "recession", "pandemic", "outbreak", "epidemic",
    "infection surge", "hospital overwhelmed", "supply shortage", "food bank empty",
    "running out", "desperate", "alarming", "concerning", "worrying", "devastating",
    "horrific"
  >>

CRISIS_PATTERNS ==
  <<
    "running low on", "supplies dwindling", "in short supply", "desperate need",
    "critically low", "struggling to meet", "faces shortage"
  >>

\* keyword.lower() of every keyword of the three tables.
CATEGORY_KEYWORDS_LOWER ==
  [i \in 1..Len(CATEGORY_KEYWORDS) |->
     [category |-> CATEGORY_KEYWORDS[i].category,
      keywords |-> lower_all(CATEGORY_KEYWORDS[i].keywords)]]

REJECT_KEYWORDS_LOWER == lower_all(REJECT_KEYWORDS)

CRISIS_PATTERNS_LOWER == lower_all(CRISIS_PATTERNS)

\* check_category_match: <<has_category, matched_categories>>, the categories
\* in the order of CATEGORY_KEYWORDS.
check_category_match(article) ==
  LET text == full_text(article)
      hit == SelectSeq(CATEGORY_KEYWORDS_LOWER,
                       LAMBDA entry : any_in(entry.keywords, text))
      matched_categories == [i \in 1..Len(hit) |-> hit[i].category]
  IN <<Len(matched_categories) > 0, matched_categories>>

\* A variant of crisis_framing that never matches.
crisis_framing_skipped(text) == FALSE

\* A variant of stress_keywords that finds nothing.
stress_keywords_none(text) == {}

\* A variant of stress_keywords that finds a keyword only as a whole word.
stress_keywords_whole_words(text) ==
  LET letters == {SubSeq(LOWERCASE, i, i) : i \in 1..Len(LOWERCASE)}
      word(k) ==
        \E p \in 1..(Len(text) - Len(k) + 1) :
          /\ SubSeq(text, p, p + Len(k) - 1) = k
          /\ p = 1 \/ SubSeq(text, p - 1, p - 1) \notin letters
          /\ \/ p + Len(k) - 1 = Len(text)
             \/ SubSeq(text, p + Len(k), p + Len(k)) \notin letters
  IN {i \in 1..Len(REJECT_KEYWORDS) : word(REJECT_KEYWORDS_LOWER[i])}

\* The positions in REJECT_KEYWORDS of the keywords found in the text.
stress_keywords(text) ==
  {i \in 1..Len(REJECT_KEYWORDS) : Substring(REJECT_KEYWORDS_LOWER[i], text)}

\* The loop over CRISIS_PATTERNS finds a match.
crisis_framing(text) == any_search(CRISIS_PATTERNS_LOWER, text)

\* A variant of repeats_headline without the rule.
repeats_headline_never(title, description) == FALSE

\* A variant of repeats_headline without the test of the lengths.
repeats_headline_any_length(title, description) ==
  Substring(title, description) \/ Substring(description, title)

\* title in description or description in title, and
\* len(description) < len(title) * 1.5.
repeats_headline(title, description) ==
  /\ Substring(title, description) \/ Substring(description, title)
  /\ 2 * Len(description) < 3 * Len(title)

\* check_emotional_safety: <<is_safe, reason>>.
check_emotional_safety(article) ==
  LET title == lower(Or(get(article, "title", None), Str(""))[2])
      description == lower(Or(get(article, "description", None), Str(""))[2])
      text == full_text(article)
      stress == stress_keywords(text)
  IN IF stress # {}
       THEN LET first == CHOOSE i \in stress : \A j \in stress : i <= j
            IN <<FALSE, "Contains stress keyword: " \o REJECT_KEYWORDS[first]>>
     ELSE IF crisis_framing(text)
       THEN <<FALSE, "Contains crisis framing pattern">>
     ELSE IF repeats_headline(title, description)
       THEN <<FALSE, "Description repeats headline">>
     ELSE <<TRUE, "Emotionally safe">>

\* A variant of amulya_decision that tests `has_category or is_safe`.
amulya_decision_either(article) ==
  LET cat == check_category_match(article)
      safety == check_emotional_safety(article)
  IN IF cat[1] \/ safety[1]
       THEN [accepted |-> TRUE,
             article |-> [article EXCEPT !.amulya_categories = List(cat[2])],
             reason |-> ""]
       ELSE [accepted |-> FALSE,
             article |-> article,
             reason |-> IF ~safety[1] THEN safety[2] ELSE "No matching category"]

\* A variant of amulya_decision that logs "No matching category" whenever no
\* category matched, safe or not.
amulya_decision_category_first(article) ==
  LET cat == check_category_match(article)
      safety == check_emotional_safety(article)
  IN IF cat[1] /\ safety[1]
       THEN [accepted |-> TRUE,
             article |-> [article EXCEPT !.amulya_categories = List(cat[2])],
             reason |-> ""]
       ELSE [accepted |-> FALSE,
             article |-> article,
             reason |-> IF ~cat[1] THEN "No matching category" ELSE safety[2]]

\* A variant of amulya_decision that attaches the categories before it looks
\* at the outcome of the two checks.
amulya_decision_marks_all(article) ==
  LET cat == check_category_match(article)
      safety == check_emotional_safety(article)
  IN [accepted |-> cat[1] /\ safety[1],
      article |-> [article EXCEPT !.amulya_categories = List(cat[2])],
      reason |-> IF cat[1] /\ safety[1] THEN ""
                 ELSE IF ~safety[1] THEN safety[2] ELSE "No matching category"]

\* One turn of the loop of apply_amulya_filter: whether the article is kept,
\* the article as the loop leaves it, and the reason logged on rejection.
amulya_decision(article) ==
  LET cat == check_category_match(article)
      safety == check_emotional_safety(article)
  IN IF cat[1] /\ safety[1]
       THEN [accepted |-> TRUE,
             article |-> [article EXCEPT !.amulya_categories = List(cat[2])],
             reason |-> ""]
       ELSE [accepted |-> FALSE,
             article |-> article,
             reason |-> IF ~safety[1] THEN safety[2] ELSE "No matching category"]

\* The loop of apply_amulya_filter over the list: <<filtered_articles, the
\* reasons of the "Rejected: ..." logger.debug lines>>.
RECURSIVE apply_amulya_loop(_)
apply_amulya_loop(articles) ==
  IF articles = <<>> THEN <<(<<>>), (<<>>)>>
  ELSE LET d == amulya_decision(Head(articles))
           rest == apply_amulya_loop(Tail(articles))
       IN IF d.accepted
            THEN <<(<<d.article>>) \o rest[1], rest[2]>>
            ELSE <<rest[1], (<<d.reason>>) \o rest[2]>>

\* apply_amulya_filter: the accepted articles, in order, each with its
\* amulya_categories set.
apply_amulya_filter(articles) == apply_amulya_loop(articles)[1]

\* The caller's list after apply_amulya_filter(articles): the dicts of the
\* accepted articles were changed in place.
apply_amulya_in_place(articles) ==
  [i \in 1..Len(articles) |-> amulya_decision(articles[i]).article]

\* ------------------------------------------------------------- articles
\* The field values the classifiers are run on.  Every text field may be
\* absent, None or empty; the strings carry the keywords of each table, in
\* mixed case, alone and across a field boundary.
Titles ==
  {Missing, None, Str(""),
   Str("Reforestation Gains"),
   Str("Scientists might possibly find cure"),
   Str("Heartwarming Rescue"),
   Str("Clinical Trial Success")}

Descriptions ==
  {Missing, None, Str(""),
   Str("reforestation gains"),
   Str("Reforestation gains across the valley"),
   Str("Volunteers planted trees across the valley"),
   Str("A crisis looms"),
   Str("Cancer cured")}

Contents ==
  {Missing, None, Str(""),
   Str("Study published, peer-reviewed"),
   Str("Miracle cure"),
   Str("Supplies critically low"),
   Str("Conflict resolution"),
   Str("Early results could be preliminary"),
   Str("Women scientists lead solar power project")}

Sources == {Missing, None, Str(""), Str("Unknown"), Str("Reuters")}

Urls == {Missing, None, Str(""), Str("https://news.example.org/a")}

\* An article as fetched: no amulya_categories and no summary yet.
Article(title, description, content, source, url) ==
  [title |-> title, description |-> description, content |-> content,
   source |-> source, url |-> url,
   amulya_categories |-> Missing, summary |-> Missing]

Articles ==
  {Article(t, d, c, s, u) : t \in Titles, d \in Descriptions, c \in Contents,
                            s \in Sources, u \in Urls}

\* The articles the safety filter is run on: it reads no source and no url.
SafetyArticles ==
  {Article(t, d, c, Str("Reuters"), Str("https://news.example.org/a")) :
     t \in Titles, d \in Descriptions, c \in Contents}

\* ------------------------------------------------------ SummaryGenerator
\* The categories _generate_fallback_summary has sentences for (the keys of
\* warm_templates).
warm_templates ==
  {"environment_healing", "human_kindness", "education_wins",
   "women_empowerment", "medical_hope", "feel_good"}

\* _generate_fallback_summary: <<"raise", "TypeError">> when re.sub is handed
\* None (content falsy and description None), else the summary.  The summary
\* is built from the seven sentences of one warm_templates entry; it is
\* represented by the name of that entry.
generate_fallback_summary(article) ==
  LET description == get(article, "description", Str(""))
      content == Or(get(article, "content", Str("")), description)
      categories == get(article, "amulya_categories", List(<<"feel_good">>))
      category == IF Truthy(categories) THEN categories[2][1] ELSE "feel_good"
      template_category == IF category \in warm_templates THEN category ELSE "feel_good"
  IN IF ~IsStr(content) THEN <<"raise", "TypeError">>
     ELSE Str("warm_templates:" \o template_category)

\* What one chat.completions.create call can do.
ClientOutcomes == {"raises", "empty", "blank", "text"}

\* generate_summary with the client absent (client = FALSE) or present, in
\* which case `outcome` is what the API call does.
generate_summary(article, client, outcome) ==
  IF ~client THEN generate_fallback_summary(article)
  ELSE IF outcome = "text" THEN Str("A gentle summary from the client")
  ELSE IF outcome = "blank" THEN Str("")      \* truthy text that strip() empties
  ELSE generate_fallback_summary(article)

\* generate_summaries_batch: <<"raise", e>> when a summary raises or the
\* logger.info line slices a None title, else the articles, each with its
\* summary set; outcomes[i] is what the client does for articles[i].
RECURSIVE generate_summaries_batch(_, _, _)
generate_summaries_batch(articles, client, outcomes) ==
  IF articles = <<>> THEN List(<<>>)
  ELSE LET summary == generate_summary(Head(articles), client, Head(outcomes))
           rest == generate_summaries_batch(Tail(articles), client, Tail(outcomes))
       IN IF ~IsStr(summary) THEN summary
          ELSE IF ~IsStr(get(Head(articles), "title", Str("Unknown")))
            THEN <<"raise", "TypeError">>
          ELSE IF ~IsList(rest) THEN rest
          ELSE List(<<[Head(articles) EXCEPT !.summary = summary]>> \o rest[2])

\* ----------------------------------------------------- ContentGuarantee
\* EMERGENCY_STORIES, without published_at (the time the module was loaded,
\* read only by the email template).  The summaries are the source's.
EMERGENCY_STORY_1 ==
  [title |-> Str("Ocean Guardians: Coral Reefs Show Remarkable Recovery"),
   description |-> Missing, content |-> Missing,
   source |-> Str("Ocean Conservation"),
   url |-> Str("https://oceanconservancy.org"),
   amulya_categories |-> List(<<"environment_healing">>),
   summary |-> Str("In the warm embrace of protected waters, coral reefs are painting a "
       \o "story of hope and resilience. Scientists have discovered that "
       \o "carefully nurtured marine sanctuaries are witnessing the gentle return "
       \o "of vibrant coral colonies, their colors blooming like underwater "
       \o "gardens. These delicate ecosystems, once thought to be beyond "
       \o "recovery, are now thriving with renewed life. The soft sway of healthy "
       \o "coral branches shelters countless species, creating safe havens "
       \o "beneath the waves. This beautiful transformation reminds us that with "
       \o "patient care and dedicated protection, nature possesses an "
       \o "extraordinary ability to heal and flourish once more.")]

EMERGENCY_STORY_2 ==
  [title |-> Str("A Community's Gentle Gift: Neighbors Create Beautiful Garden for Elderly Residents"),
   description |-> Missing, content |-> Missing,
   source |-> Str("Community News"),
   url |-> Str("https://example.com/community-garden"),
   amulya_categories |-> List(<<"human_kindness">>),
   summary |-> Str("In a heartwarming display of community love, neighbors came together "
       \o "to create something truly special. With gentle hands and caring "
       \o "hearts, they transformed a neglected space into a serene garden "
       \o "sanctuary for elderly residents. Soft petals of roses and lavender now "
       \o "greet visitors, while comfortable benches offer peaceful resting "
       \o "spots. The project brought together volunteers of all ages, each "
       \o "contributing their unique gifts to this labor of love. Now, seniors "
       \o "can enjoy morning sunshine surrounded by blooming flowers, butterflies "
       \o "dancing on the breeze, and the warm companionship of neighbors who "
       \o "truly care. This beautiful gesture shows how small acts of kindness "
       \o "can blossom into lasting joy.")]

EMERGENCY_STORY_3 ==
  [title |-> Str("Young Scientists Shine: Students' Environmental Project Wins National Recognition"),
   description |-> Missing, content |-> Missing,
   source |-> Str("Education Today"),
   url |-> Str("https://example.com/student-achievement"),
   amulya_categories |-> List(<<"education_wins", "environment_healing">>),
   summary |-> Str("A group of dedicated students has captured hearts and minds with their "
       \o "innovative environmental project. These young changemakers designed a "
       \o "beautiful system to purify water using natural, sustainable materials. "
       \o "Their gentle approach combines scientific knowledge with deep care for "
       \o "the planet, creating solutions that work in harmony with nature. "
       \o "Teachers describe watching these students blossom as they worked "
       \o "together, supporting each other through challenges and celebrating "
       \o "every small victory. The project has now inspired other schools to "
       \o "embrace similar initiatives, spreading ripples of positive change. "
       \o "These bright young minds remind us that the future is in caring, "
       \o "capable hands, and that hope grows wherever passion meets purpose.")]

EMERGENCY_STORY_4 ==
  [title |-> Str("Butterfly Haven: Restored Meadow Becomes Sanctuary for Endangered Species"),
   description |-> Missing, content |-> Missing,
   source |-> Str("Wildlife Conservation"),
   url |-> Str("https://example.com/butterfly-sanctuary"),
   amulya_categories |-> List(<<"environment_healing">>),
   summary |-> Str("A once-barren field has transformed into a breathtaking butterfly "
       \o "sanctuary, filled with gentle wings and colorful blooms. Conservation "
       \o "teams carefully planted native wildflowers, creating a soft tapestry "
       \o "of colors that dance in the breeze. Endangered butterfly species have "
       \o "returned to this haven, their delicate presence a sign of healing and "
       \o "hope. Visitors now walk among peaceful meadows, watching these "
       \o "beautiful creatures flutter from flower to flower. The sanctuary has "
       \o "become a place of wonder, where families can witness nature's quiet "
       \o "magic and children can learn about protecting our precious ecosystems. "
       \o "This transformation shows how dedication and gentle care can bring "
       \o "endangered beauty back to life.")]

EMERGENCY_STORY_5 ==
  [title |-> Str("Women-Led Initiative Brings Clean Energy to Rural Communities"),
   description |-> Missing, content |-> Missing,
   source |-> Str("Sustainable Future"),
   url |-> Str("https://example.com/women-clean-energy"),
   amulya_categories |-> List(<<"women_empowerment", "ethical_innovation">>),
   summary |-> Str("A team of inspiring women engineers has created a beautiful solution "
       \o "that brings light and hope to remote villages. Their solar energy "
       \o "project combines technical excellence with deep compassion, ensuring "
       \o "that families can now enjoy clean, sustainable power. These remarkable "
       \o "women worked alongside community members, teaching and empowering them "
       \o "to maintain the systems themselves. The soft glow of solar-powered "
       \o "lights now illuminates homes, schools, and community centers, "
       \o "replacing the darkness with gentle, reliable brightness. Children can "
       \o "study in the evenings, and families can gather safely after sunset. "
       \o "This woman-led initiative demonstrates how innovation rooted in care "
       \o "and understanding can transform lives and create lasting positive "
       \o "change in the world.")]

EMERGENCY_STORIES ==
  <<EMERGENCY_STORY_1, EMERGENCY_STORY_2, EMERGENCY_STORY_3, EMERGENCY_STORY_4, EMERGENCY_STORY_5>>

AFFIRMATIONS ==
  <<
    "You are worthy of gentle mornings and beautiful moments. Let today unfold with grace.",
    "Your presence in this world creates ripples of light. Shine softly today.",
    "Like flowers opening to sunlight, you are allowed to bloom at your own pace.",
    "You carry within you the strength of oceans and the gentleness of morning dew.",
    "Today, may you find peace in small joys and comfort in your own beautiful spirit.",
    "You are deserving of rest, kindness, and all the soft things that bring you peace.",
    "Let yourself be held by the beauty of this moment. You are exactly where you need to be.",
    "Your gentle heart is your greatest strength. Honor it today.",
    "Like the quiet growth of forests, your journey is beautiful even in its stillness.",
    "You are a garden of possibilities. Water yourself with kindness today."
  >>

Min(a, b) == IF a <= b THEN a ELSE b
Max(a, b) == IF a >= b THEN a ELSE b

\* A variant of slice that keeps one entry more.
slice_one_more(list, stop) == SubSeq(list, 1, Min(stop + 1, Len(list)))

\* Python's list[:stop].
slice(list, stop) ==
  IF stop >= 0 THEN SubSeq(list, 1, Min(stop, Len(list)))
  ELSE SubSeq(list, 1, Max(0, Len(list) + stop))

\* A variant of random_sample that draws with replacement, as random.choices
\* does.
random_sample_with_replacement(population, k) ==
  {[i \in 1..k |-> population[p[i]]] : p \in [1..k -> 1..Len(population)]}

\* random.sample(population, k), 0 <= k <= len(population): every list of k
\* entries at pairwise different positions of the population.
random_sample(population, k) ==
  LET positions == {p \in [1..k -> 1..Len(population)] :
                      \A i, j \in 1..k : i # j => p[i] # p[j]}
  IN {[i \in 1..k |-> population[p[i]]] : p \in positions}

\* ContentGuarantee.EMERGENCY_STORIES as the running program holds it: a class
\* attribute, a list every call reads through self.
VARIABLE emergency_stories

\* A variant of emergency_selections that draws one story less than needed.
emergency_selections_one_short(articles, minimum) ==
  IF Len(articles) >= minimum THEN {<<>>}
  ELSE LET needed == minimum - Len(articles)
       IN random_sample(emergency_stories,
                        Min(needed, Len(emergency_stories)) - 1)

\* The draws ensure_minimum_stories can make: none when there are enough
\* articles, else min(needed, len(EMERGENCY_STORIES)) emergency stories.
emergency_selections(articles, minimum) ==
  IF Len(articles) >= minimum THEN {<<>>}
  ELSE LET needed == minimum - Len(articles)
       IN random_sample(emergency_stories, Min(needed, Len(emergency_stories)))

\* A variant of ensure_minimum_stories that returns all the articles when there
\* are enough of them.
ensure_minimum_stories_untruncated(articles, minimum, maximum, emergency_selection) ==
  IF Len(articles) >= minimum THEN articles
  ELSE slice(articles \o emergency_selection, maximum)

\* A variant of ensure_minimum_stories that puts the emergency stories first.
ensure_minimum_stories_emergency_first(articles, minimum, maximum, emergency_selection) ==
  IF Len(articles) >= minimum THEN slice(articles, maximum)
  ELSE slice(emergency_selection \o articles, maximum)

\* ensure_minimum_stories, given the draw random.sample made.
ensure_minimum_stories(articles, minimum, maximum, emergency_selection) ==
  IF Len(articles) >= minimum THEN slice(articles, maximum)
  ELSE LET combined == articles \o emergency_selection
       IN slice(combined, maximum)

\* ------------------------------------------------- MorningEmailGuardian
\* generate_html_email: the page, represented by what it prints of each
\* story and the affirmation.
generate_html_email(stories, affirm) ==
  [stories |-> [i \in 1..Len(stories) |->
                  [title |-> get(stories[i], "title", Str("Untitled")),
                   summary |-> get(stories[i], "summary", Str("")),
                   url |-> get(stories[i], "url", Str("#"))]],
   affirmation |-> affirm]

\* The html page as written to a file or handed to the SMTP server.
Html(page) == <<"html", page>>

\* ----------------------------------------------------- SourceOrchestrator
\* str.startswith
startswith(s, prefix) ==
  Len(s) >= Len(prefix) /\ SubSeq(s, 1, Len(prefix)) = prefix

\* validate_url; `up` holds the urls whose HEAD request answers below 400.
validate_url(url, up) ==
  /\ Truthy(url)
  /\ startswith(url[2], "http")
  /\ url \in up

\* fetch_newsapi_articles with the key given: the articles of an 'ok' answer;
\* [] when the request raises (requests.get, an error status through
\* raise_for_status, or json()), or when the answer's status is not 'ok'.
fetch_newsapi_articles(response) ==
  IF IsList(response) THEN response[2] ELSE <<>>

\* fetch_google_news_rss: the entries of the feed; [] when the fetch raises.
fetch_google_news_rss(response) ==
  IF IsList(response) THEN response[2] ELSE <<>>

\* A variant of all_articles_of in which the first fetch that fails ends the
\* loop over the queries.
RECURSIVE all_articles_until_failure(_)
all_articles_until_failure(fetches) ==
  IF fetches = <<>> THEN <<>>
  ELSE IF ~IsList(Head(fetches).newsapi) THEN <<>>
  ELSE IF ~IsList(Head(fetches).rss) THEN Head(fetches).newsapi[2]
  ELSE Head(fetches).newsapi[2] \o Head(fetches).rss[2]
         \o all_articles_until_failure(Tail(fetches))

\* The first loop of fetch_all_sources: all_articles after the two fetches of
\* every query, fetches[i] being what the requests of query i get.
RECURSIVE all_articles_of(_)
all_articles_of(fetches) ==
  IF fetches = <<>> THEN <<>>
  ELSE fetch_newsapi_articles(Head(fetches).newsapi)
         \o fetch_google_news_rss(Head(fetches).rss)
         \o all_articles_of(Tail(fetches))

\* The fetches that loop makes: for every query NewsAPI, then the RSS feed.
fetches_issued(fetches) ==
  [k \in 1..(2 * Len(fetches)) |->
     <<(k + 1) \div 2, IF k % 2 = 1 THEN "newsapi" ELSE "rss">>]

\* The validation loop of fetch_all_sources over all the fetched articles.
validated_articles(all_articles, up) ==
  SelectSeq(all_articles,
            LAMBDA a : Truthy(get(a, "url", None)) /\ validate_url(a.url, up))

\* --------------------------------------------------------------- bounds
MaxFetched == 3        \* articles the queries of one run return
MaxCandidates == 6     \* candidates of a direct ensure_minimum_stories call
MaxMinimum == 7        \* its minimum argument
MaxMaximum == 6        \* its maximum argument

\* The arguments of the call in sacred_morning_flow_with_accuracy.
FLOW_MINIMUM == 3
FLOW_MAXIMUM == 5

\* Every list over S of at most n entries.
BoundedSeq(S, n) == UNION {[1..k -> S] : k \in 0..n}

\* What the sources return in the daily flow: two articles both classifiers
\* accept, one they accept whose title is None, one with speculation, one
\* with a stress keyword, and two whose url does not validate.
ArticleAccepted ==
  Article(Str("Reforestation Gains"),
          Str("Volunteers planted trees across the valley"),
          Str("Women scientists lead solar power project"),
          Str("Reuters"), Str("https://news.example.org/a"))

ArticleNoTitle ==
  Article(Missing, None, Str("Women scientists lead solar power project"),
          Str("Reuters"), Str("https://news.example.org/a"))

ArticleNoneTitle ==
  Article(None, Str("Volunteers planted trees across the valley"), None,
          Str("Reuters"), Str("https://news.example.org/a"))

ArticleSpeculative ==
  Article(Str("Scientists might possibly find cure"), Str("Cancer cured"),
          Str("Miracle cure"), Str("Reuters"), Str("https://news.example.org/a"))

ArticleCrisis ==
  Article(Str("Clinical Trial Success"), Str("A crisis looms"), Missing,
          Str("Reuters"), Str("https://news.example.org/a"))

ArticleNoUrl ==
  Article(Str("Reforestation Gains"),
          Str("Volunteers planted trees across the valley"), Missing,
          Str("Reuters"), Str(""))

ArticleBadUrl ==
  Article(Str("Reforestation Gains"),
          Str("Volunteers planted trees across the valley"), Missing,
          Str("Reuters"), Str("news.example.org/a"))

FetchPool ==
  {ArticleAccepted, ArticleNoTitle, ArticleNoneTitle, ArticleSpeculative,
   ArticleCrisis, ArticleNoUrl, ArticleBadUrl}

FetchUrls == {a.url : a \in FetchPool}

\* The candidates of a direct ensure_minimum_stories call: the two accepted
\* articles as process_news returns them.
CandidatePool ==
  LET safe == apply_amulya_filter(
                filter_accurate_articles(<<ArticleAccepted, ArticleNoTitle>>))
      summarized == generate_summaries_batch(safe, TRUE, <<"raises", "text">>)
  IN {summarized[2][i] : i \in 1..Len(summarized[2])}

\* ---------------------------------------------------------------- state
VARIABLES
  art,                \* the article of a direct classifier call
  accuracy,           \* what check_factual_accuracy returned for it, <<>> before the call
  filtered,           \* what apply_amulya_filter([art]) returned, None before the call
  reasons,            \* the rejection reasons apply_amulya_filter logged
  pc,                 \* where the daily flow stands
  client,             \* SummaryGenerator.client is set (OPENAI_API_KEY given)
  smtp,               \* MorningEmailGuardian: "unread" before it is built, then
                      \* "set" (smtp_username and smtp_password given) or "unset"
  raw_articles,       \* process_news: what fetch_all_sources returned
  accurate_articles,  \* process_news: what filter_accurate_articles returned
  safe_articles,      \* process_news: what apply_amulya_filter returned
  processed_articles, \* what process_news returned
  min_stories,        \* the minimum argument of ensure_minimum_stories
  max_stories,        \* the maximum argument of ensure_minimum_stories
  final_stories,      \* what ensure_minimum_stories returned
  affirmation,        \* what get_daily_affirmation returned
  preview,            \* the content of preview_email.html
  sent,               \* the page the SMTP server accepted
  success,            \* what deliver_morning_glow returned
  raised,             \* the stage whose exception ensure_ritual swallowed, "" if none
  returned,           \* what the decorated flow returned, Missing while it runs
  history,            \* the story identifiers the program has recorded as delivered
  earlier_run,        \* the candidates and the result of the run before this one,
                      \* NoRun in the first run
  responses,          \* a direct fetch_all_sources call: what each request of
                      \* each query gets, and the urls that answer a HEAD request
  issued              \* the fetches that call has made, in order

classify_vars == <<art, accuracy, filtered, reasons>>
flow_vars ==
  <<pc, client, smtp, raw_articles, accurate_articles, safe_articles,
    processed_articles, min_stories, max_stories, final_stories, affirmation,
    preview, sent, success, raised, returned>>
run_vars == <<history, earlier_run>>
fetch_vars == <<responses, issued>>
vars == <<classify_vars, flow_vars, run_vars, fetch_vars, emergency_stories>>

\* No direct classifier call is under way.
ClassifyIdle ==
  /\ art = None
  /\ accuracy = <<>>
  /\ filtered = None
  /\ reasons = <<>>

\* The locals of process_news do not exist (before the call, after it).
ProcessNewsUnset ==
  /\ raw_articles = None
  /\ accurate_articles = None
  /\ safe_articles = None

\* Nothing delivered and nothing returned yet; preview_email.html absent.
DeliveryUnset ==
  /\ affirmation = None
  /\ preview = None
  /\ sent = None
  /\ success = None
  /\ raised = ""
  /\ returned = Missing

\* No run before this one.
NoRun == [candidates |-> None, stories |-> None]

\* The first run: nothing recorded, no run before it.
RunsUnset ==
  /\ history = <<>>
  /\ earlier_run = NoRun

\* No direct fetch_all_sources call is under way.
FetchUnset ==
  /\ responses = [fetches |-> <<>>, up |-> {}]
  /\ issued = <<>>

\* The flow has not started.
FlowUnset ==
  /\ ProcessNewsUnset
  /\ processed_articles = None
  /\ final_stories = None
  /\ DeliveryUnset

\* ------------------------------------- check_factual_accuracy, one article
AccuracyInit ==
  /\ art \in Articles
  /\ accuracy = <<>>
  /\ filtered = None
  /\ reasons = <<>>
  /\ pc = "idle" /\ client = FALSE /\ smtp = "unread"
  /\ min_stories = FLOW_MINIMUM /\ max_stories = FLOW_MAXIMUM
  /\ FlowUnset
  /\ RunsUnset
  /\ FetchUnset
  /\ emergency_stories = EMERGENCY_STORIES

CheckFactualAccuracy ==
  /\ pc = "idle"
  /\ accuracy = <<>>
  /\ accuracy' = check_factual_accuracy(art)
  /\ UNCHANGED <<art, filtered, reasons, flow_vars, run_vars, fetch_vars,
                 emergency_stories>>

SpecAccuracy == AccuracyInit /\ [][CheckFactualAccuracy]_vars

\* ---------------------------------------- apply_amulya_filter, one article
SafetyInit ==
  /\ art \in SafetyArticles
  /\ accuracy = <<>>
  /\ filtered = None
  /\ reasons = <<>>
  /\ pc = "idle" /\ client = FALSE /\ smtp = "unread"
  /\ min_stories = FLOW_MINIMUM /\ max_stories = FLOW_MAXIMUM
  /\ FlowUnset
  /\ RunsUnset
  /\ FetchUnset
  /\ emergency_stories = EMERGENCY_STORIES

ApplyAmulyaFilter ==
  /\ pc = "idle"
  /\ filtered = None
  /\ LET run == apply_amulya_loop(<<art>>)
     IN /\ filtered' = List(run[1])
        /\ reasons' = run[2]
  /\ art' = apply_amulya_in_place(<<art>>)[1]
  /\ UNCHANGED <<accuracy, flow_vars, run_vars, fetch_vars, emergency_stories>>

SpecSafety == SafetyInit /\ [][ApplyAmulyaFilter]_vars

\* ------------------------------------------------------ the daily flow
\* sacred_morning_flow_with_accuracy under SilentGuardian.ensure_ritual, one
\* action per stage.
Init ==
  /\ ClassifyIdle
  /\ pc = "fetch"
  /\ client \in BOOLEAN
  /\ smtp = "unread"
  /\ min_stories = FLOW_MINIMUM /\ max_stories = FLOW_MAXIMUM
  /\ FlowUnset
  /\ RunsUnset
  /\ FetchUnset
  /\ emergency_stories = EMERGENCY_STORIES

\* A variant of Swallow that lets the exception out of the decorated call.
Swallow_reraise(stage) ==
  /\ raised' = stage
  /\ returned' = Raised(stage)
  /\ pc' = "done"

\* ensure_ritual's except branch: the exception is logged, the call returns None.
Swallow(stage) ==
  /\ raised' = stage
  /\ returned' = None
  /\ pc' = "done"

FetchAllSources ==
  /\ pc = "fetch"
  /\ \E all_articles \in BoundedSeq(FetchPool, MaxFetched), up \in SUBSET FetchUrls :
       raw_articles' = List(validated_articles(all_articles, up))
  /\ pc' = "accuracy"
  /\ UNCHANGED <<classify_vars, run_vars, fetch_vars, emergency_stories, client,
                 smtp, accurate_articles, safe_articles, processed_articles,
                 min_stories, max_stories, final_stories, affirmation, preview,
                 sent, success, raised, returned>>

FilterAccurateArticles ==
  /\ pc = "accuracy"
  /\ accurate_articles' = List(filter_accurate_articles(raw_articles[2]))
  /\ pc' = "safety"
  /\ UNCHANGED <<classify_vars, run_vars, fetch_vars, emergency_stories, client,
                 smtp, raw_articles, safe_articles, processed_articles,
                 min_stories, max_stories, final_stories, affirmation, preview,
                 sent, success, raised, returned>>

ApplyAmulyaFilterStage ==
  /\ pc = "safety"
  /\ safe_articles' = List(apply_amulya_filter(accurate_articles[2]))
  /\ LET in_place == apply_amulya_in_place(accurate_articles[2])
         passed(a) == {j \in 1..Len(accurate_articles[2]) :
                        accurate_articles[2][j] = a}
     IN /\ accurate_articles' = List(in_place)
        /\ raw_articles' =
             List([i \in 1..Len(raw_articles[2]) |->
                     IF passed(raw_articles[2][i]) # {}
                       THEN in_place[CHOOSE j \in passed(raw_articles[2][i]) : TRUE]
                       ELSE raw_articles[2][i]])
  /\ pc' = "summarize"
  /\ UNCHANGED <<classify_vars, run_vars, fetch_vars, emergency_stories, client,
                 smtp, processed_articles, min_stories, max_stories,
                 final_stories, affirmation, preview, sent, success, raised,
                 returned>>

\* The last stage of process_news: it returns, or raises into ensure_ritual;
\* either way its locals are gone.
GenerateSummariesBatch ==
  /\ pc = "summarize"
  /\ \E outcomes \in [1..Len(safe_articles[2]) ->
                        IF client THEN ClientOutcomes ELSE {"raises"}] :
       LET batch == generate_summaries_batch(safe_articles[2], client, outcomes)
       IN IF IsList(batch)
            THEN /\ processed_articles' = batch
                 /\ pc' = "guarantee"
                 /\ UNCHANGED <<raised, returned>>
            ELSE /\ Swallow("process_news")
                 /\ UNCHANGED processed_articles
  /\ raw_articles' = None
  /\ accurate_articles' = None
  /\ safe_articles' = None
  /\ UNCHANGED <<classify_vars, run_vars, fetch_vars, emergency_stories, client,
                 smtp, min_stories, max_stories, final_stories, affirmation,
                 preview, sent, success>>

\* A variant of EnsureMinimumStories that extends the caller's list and takes
\* the drawn stories out of EMERGENCY_STORIES.
EnsureMinimumStories_consuming ==
  /\ pc = "guarantee"
  /\ \E emergency_selection \in emergency_selections(processed_articles[2], min_stories) :
       /\ final_stories' = List(ensure_minimum_stories(processed_articles[2], min_stories,
                                                       max_stories, emergency_selection))
       /\ processed_articles' = List(processed_articles[2] \o emergency_selection)
       /\ emergency_stories' =
            SelectSeq(emergency_stories,
                      LAMBDA story : \A i \in 1..Len(emergency_selection) :
                                       emergency_selection[i] # story)
  /\ pc' = "affirmation"
  /\ UNCHANGED <<classify_vars, run_vars, fetch_vars, client, smtp, raw_articles,
                 accurate_articles, safe_articles, min_stories, max_stories,
                 affirmation, preview, sent, success, raised, returned>>

\* ensure_minimum_stories(processed_articles, minimum, maximum): the argument
\* is sliced and concatenated, random.sample copies; nothing is written to.
EnsureMinimumStories ==
  /\ pc = "guarantee"
  /\ \E emergency_selection \in emergency_selections(processed_articles[2], min_stories) :
       final_stories' = List(ensure_minimum_stories(processed_articles[2], min_stories,
                                                    max_stories, emergency_selection))
  /\ pc' = "affirmation"
  /\ UNCHANGED <<classify_vars, run_vars, fetch_vars, emergency_stories, client,
                 smtp, raw_articles, accurate_articles, safe_articles,
                 processed_articles, min_stories, max_stories, affirmation,
                 preview, sent, success, raised, returned>>

GetDailyAffirmation ==
  /\ pc = "affirmation"
  /\ \E i \in 1..Len(AFFIRMATIONS) : affirmation' = Str(AFFIRMATIONS[i])
  /\ pc' = "email_guardian"
  /\ UNCHANGED <<classify_vars, run_vars, fetch_vars, emergency_stories, client,
                 smtp, raw_articles, accurate_articles, safe_articles,
                 processed_articles, min_stories, max_stories, final_stories,
                 preview, sent, success, raised, returned>>

\* MorningEmailGuardian(): the SMTP credentials are read from the environment.
MorningEmailGuardianInit ==
  /\ pc = "email_guardian"
  /\ smtp' \in {"set", "unset"}
  /\ pc' = "preview"
  /\ UNCHANGED <<classify_vars, run_vars, fetch_vars, emergency_stories, client,
                 raw_articles, accurate_articles, safe_articles,
                 processed_articles, min_stories, max_stories, final_stories,
                 affirmation, preview, sent, success, raised, returned>>

\* int(os.getenv('SMTP_PORT', '587')) raises ValueError: the port set in the
\* environment is not a number.
MorningEmailGuardianInitFails ==
  /\ pc = "email_guardian"
  /\ Swallow("MorningEmailGuardian")
  /\ UNCHANGED <<classify_vars, run_vars, fetch_vars, emergency_stories, client,
                 smtp, raw_articles, accurate_articles, safe_articles,
                 processed_articles, min_stories, max_stories, final_stories,
                 affirmation, preview, sent, success>>

\* A variant of WritePreview that goes on to send_email without writing the
\* file.
WritePreview_skipped ==
  /\ pc = "preview"
  /\ pc' = "send"
  /\ UNCHANGED <<classify_vars, run_vars, fetch_vars, emergency_stories, client,
                 smtp, raw_articles, accurate_articles, safe_articles,
                 processed_articles, min_stories, max_stories, final_stories,
                 affirmation, preview, sent, success, raised, returned>>

\* deliver_morning_glow up to the write of preview_email.html.
WritePreview ==
  /\ pc = "preview"
  /\ preview' = Html(generate_html_email(final_stories[2], affirmation))
  /\ pc' = "send"
  /\ UNCHANGED <<classify_vars, run_vars, fetch_vars, emergency_stories, client,
                 smtp, raw_articles, accurate_articles, safe_articles,
                 processed_articles, min_stories, max_stories, final_stories,
                 affirmation, sent, success, raised, returned>>

\* open() or write() raises OSError: nothing is written, nothing is sent.
WritePreviewFails ==
  /\ pc = "preview"
  /\ Swallow("deliver_morning_glow")
  /\ UNCHANGED <<classify_vars, run_vars, fetch_vars, emergency_stories, client,
                 smtp, raw_articles, accurate_articles, safe_articles,
                 processed_articles, min_stories, max_stories, final_stories,
                 affirmation, preview, sent, success>>

\* A variant of SendEmail in which an exception of the SMTP session leaves
\* send_email.
SendEmail_uncaught ==
  /\ pc = "send"
  /\ \E delivered \in IF smtp = "set" THEN BOOLEAN ELSE {FALSE} :
       IF smtp = "set" /\ ~delivered
         THEN /\ Swallow("send_email")
              /\ UNCHANGED <<success, sent>>
         ELSE /\ success' = delivered
              /\ sent' = IF delivered THEN preview ELSE sent
              /\ pc' = "return"
              /\ UNCHANGED <<raised, returned>>
  /\ UNCHANGED <<classify_vars, run_vars, fetch_vars, emergency_stories, client,
                 smtp, raw_articles, accurate_articles, safe_articles,
                 processed_articles, min_stories, max_stories, final_stories,
                 affirmation, preview>>

\* send_email: False without credentials or when the SMTP session raises.
SendEmail ==
  /\ pc = "send"
  /\ \E delivered \in IF smtp = "set" THEN BOOLEAN ELSE {FALSE} :
       /\ success' = delivered
       /\ sent' = IF delivered THEN preview ELSE sent
  /\ pc' = "return"
  /\ UNCHANGED <<classify_vars, run_vars, fetch_vars, emergency_stories, client,
                 smtp, raw_articles, accurate_articles, safe_articles,
                 processed_articles, min_stories, max_stories, final_stories,
                 affirmation, preview, raised, returned>>

ReturnFinalStories ==
  /\ pc = "return"
  /\ returned' = final_stories
  /\ pc' = "done"
  /\ UNCHANGED <<classify_vars, run_vars, fetch_vars, emergency_stories, client,
                 smtp, raw_articles, accurate_articles, safe_articles,
                 processed_articles, min_stories, max_stories, final_stories,
                 affirmation, preview, sent, success, raised>>

Next ==
  \/ FetchAllSources
  \/ FilterAccurateArticles
  \/ ApplyAmulyaFilterStage
  \/ GenerateSummariesBatch
  \/ EnsureMinimumStories
  \/ GetDailyAffirmation
  \/ MorningEmailGuardianInit
  \/ MorningEmailGuardianInitFails
  \/ WritePreview
  \/ WritePreviewFails
  \/ SendEmail
  \/ ReturnFinalStories

Spec == Init /\ [][Next]_vars

\* --------------------------------- ensure_minimum_stories, called directly
GuaranteeInit ==
  /\ ClassifyIdle
  /\ pc = "guarantee"
  /\ client = FALSE /\ smtp = "unread"
  /\ ProcessNewsUnset
  /\ processed_articles \in {List(c) : c \in BoundedSeq(CandidatePool, MaxCandidates)}
  /\ min_stories \in 0..MaxMinimum
  /\ max_stories \in 0..MaxMaximum
  /\ final_stories = None
  /\ DeliveryUnset
  /\ RunsUnset
  /\ FetchUnset
  /\ emergency_stories = EMERGENCY_STORIES

SpecGuarantee == GuaranteeInit /\ [][EnsureMinimumStories]_vars

\* ------------------------- ensure_minimum_stories, one run after another
MaxRunCandidates == 3  \* candidates of each run

\* The urls of the candidates of the runs.
RunUrls ==
  {"https://news.example.org/a", "https://news.example.org/b",
   "https://news.example.org/c"}

\* The candidates of the runs: ArticleAccepted as process_news returns it
\* without a client, under each of the urls.
RunPool ==
  {[ArticleAccepted EXCEPT
      !.url = Str(u),
      !.amulya_categories = List(<<"environment_healing", "human_kindness",
                                   "women_empowerment", "ethical_innovation">>),
      !.summary = Str("warm_templates:environment_healing")] : u \in RunUrls}

\* The candidate lists of a run.
RunCandidates == {List(c) : c \in BoundedSeq(RunPool, MaxRunCandidates)}

RunsInit ==
  /\ ClassifyIdle
  /\ pc = "guarantee"
  /\ client = FALSE /\ smtp = "unread"
  /\ ProcessNewsUnset
  /\ processed_articles \in RunCandidates
  /\ min_stories = FLOW_MINIMUM /\ max_stories = FLOW_MAXIMUM
  /\ final_stories = None
  /\ DeliveryUnset
  /\ RunsUnset
  /\ FetchUnset
  /\ emergency_stories = EMERGENCY_STORIES

\* The program is started again (the next morning) and comes to its
\* ensure_minimum_stories call with the candidates of that run.  Nothing of
\* the run before is kept by the program; earlier_run remembers it.
NextRun ==
  /\ pc = "affirmation"
  /\ earlier_run' = [candidates |-> processed_articles, stories |-> final_stories]
  /\ processed_articles' \in RunCandidates
  /\ final_stories' = None
  /\ pc' = "guarantee"
  /\ emergency_stories' = EMERGENCY_STORIES
  /\ UNCHANGED <<classify_vars, history, fetch_vars, client, smtp, raw_articles,
                 accurate_articles, safe_articles, min_stories, max_stories,
                 affirmation, preview, sent, success, raised, returned>>

SpecRuns == RunsInit /\ [][EnsureMinimumStories \/ NextRun]_vars

\* ------------- ensure_minimum_stories, called again by the same process
\* The caller passes the same list once more; earlier_run remembers the call
\* before.
CallAgain ==
  /\ pc = "affirmation"
  /\ earlier_run' = [candidates |-> processed_articles, stories |-> final_stories]
  /\ final_stories' = None
  /\ pc' = "guarantee"
  /\ UNCHANGED <<classify_vars, history, fetch_vars, emergency_stories, client,
                 smtp, raw_articles, accurate_articles, safe_articles,
                 processed_articles, min_stories, max_stories, affirmation,
                 preview, sent, success, raised, returned>>

SpecCalls == RunsInit /\ [][EnsureMinimumStories \/ CallAgain]_vars

\* ------------------------------------- fetch_all_sources, called directly
MaxQueries == 2        \* queries of the call

\* What a request can get: it raises, NewsAPI answers with an error status in
\* the body, or it brings no article or one.
FetchedArticles == {ArticleAccepted, ArticleNoTitle, ArticleBadUrl}
RssResponses ==
  {<<"raises">>, List(<<>>)} \cup {List(<<a>>) : a \in FetchedArticles}
NewsApiResponses == RssResponses \cup {<<"error">>}

FetchInit ==
  /\ ClassifyIdle
  /\ pc = "fetch" /\ client = FALSE /\ smtp = "unread"
  /\ min_stories = FLOW_MINIMUM /\ max_stories = FLOW_MAXIMUM
  /\ FlowUnset
  /\ RunsUnset
  /\ responses \in [fetches : BoundedSeq([newsapi : NewsApiResponses,
                                          rss : RssResponses], MaxQueries),
                     up : SUBSET {ArticleAccepted.url}]
  /\ issued = <<>>
  /\ emergency_stories = EMERGENCY_STORIES

\* fetch_all_sources(queries), every request getting what `responses` holds.
FetchAllSourcesOf ==
  /\ pc = "fetch"
  /\ issued' = fetches_issued(responses.fetches)
  /\ raw_articles' =
       List(validated_articles(all_articles_of(responses.fetches), responses.up))
  /\ pc' = "accuracy"
  /\ UNCHANGED <<classify_vars, run_vars, responses, emergency_stories, client,
                 smtp, accurate_articles, safe_articles, processed_articles,
                 min_stories, max_stories, final_stories, affirmation, preview,
                 sent, success, raised, returned>>

SpecFetch == FetchInit /\ [][FetchAllSourcesOf]_vars

\* ------------------------------- generate_summary, one classified article
\* The article has passed the accuracy filter and is handed to the safety
\* filter; the client is present or absent.
SummaryInit ==
  /\ art \in {a \in SafetyArticles : check_factual_accuracy(a)[1]}
  /\ accuracy = <<>>
  /\ filtered = None
  /\ reasons = <<>>
  /\ pc = "idle" /\ client \in BOOLEAN /\ smtp = "unread"
  /\ min_stories = FLOW_MINIMUM /\ max_stories = FLOW_MAXIMUM
  /\ FlowUnset
  /\ RunsUnset
  /\ FetchUnset
  /\ emergency_stories = EMERGENCY_STORIES

\* article['summary'] = self.generate_summary(article) for the article the
\* safety filter accepted; an exception leaves the call.
GenerateSummary ==
  /\ pc = "idle"
  /\ IsList(filtered) /\ filtered[2] # <<>>
  /\ processed_articles = None /\ raised = ""
  /\ \E outcome \in (IF client THEN ClientOutcomes ELSE {"raises"}) :
       LET summary == generate_summary(filtered[2][1], client, outcome)
       IN IF IsStr(summary)
            THEN /\ processed_articles' =
                      List(<<[filtered[2][1] EXCEPT !.summary = summary]>>)
                 /\ filtered' = processed_articles'
                 /\ art' = [art EXCEPT !.summary = summary]
                 /\ UNCHANGED raised
            ELSE /\ raised' = "generate_summary"
                 /\ UNCHANGED <<processed_articles, filtered, art>>
  /\ UNCHANGED <<accuracy, reasons, run_vars, fetch_vars, emergency_stories, pc,
                 client, smtp, raw_articles, accurate_articles, safe_articles,
                 min_stories, max_stories, final_stories, affirmation, preview,
                 sent, success, returned>>

SpecSummary == SummaryInit /\ [][ApplyAmulyaFilter \/ GenerateSummary]_vars

\* =================================================================== claims
\* The stories of EMERGENCY_STORIES, as a set.
EmergencySet == {EMERGENCY_STORIES[i] : i \in 1..Len(EMERGENCY_STORIES)}

\* A direct ensure_minimum_stories call, or the one of the flow, has returned.
GuaranteeReturned == IsList(processed_articles) /\ IsList(final_stories)

\* C1: for every candidate list and every minimum, maximum with
\* 0 <= minimum <= maximum and minimum <= len(EMERGENCY_STORIES),
\* ensure_minimum_stories returns between minimum and maximum stories.
C1_LengthWithinBounds ==
  (/\ GuaranteeReturned
   /\ 0 <= min_stories
   /\ min_stories <= max_stories
   /\ min_stories <= Len(EMERGENCY_STORIES))
  => /\ min_stories <= Len(final_stories[2])
     /\ Len(final_stories[2]) <= max_stories

\* One candidate with the default minimum 3 and maximum 5: two emergency
\* stories make up the three returned.
C1_Witness ==
  /\ GuaranteeReturned
  /\ Len(processed_articles[2]) = 1
  /\ min_stories = 3 /\ max_stories = 5
  /\ Len(final_stories[2]) = 3

\* C2: when fetch_all_sources returns no article, process_news returns an
\* empty list instead of raising, and ensure_minimum_stories then hands exactly
\* three stories, all of them emergency stories, to delivery.
C2_EmptyFetchStillDelivers ==
  /\ [][(pc = "summarize" /\ raw_articles = List(<<>>))
          => (pc' = "guarantee" /\ processed_articles' = List(<<>>))]_vars
  /\ []((processed_articles = List(<<>>) /\ pc # "guarantee")
          => /\ IsList(final_stories)
             /\ Len(final_stories[2]) = 3
             /\ \A i \in 1..3 : final_stories[2][i] \in EmergencySet)
  /\ []((processed_articles = List(<<>>) /\ pc \in {"send", "return"})
          => Len(preview[2].stories) = 3)

\* A run that fetched nothing, wrote the preview of three emergency stories
\* and returned them.
C2_Witness ==
  /\ pc = "done"
  /\ processed_articles = List(<<>>)
  /\ raised = ""
  /\ returned = final_stories
  /\ Len(preview[2].stories) = 3
  /\ \A i \in 1..3 : final_stories[2][i] \in EmergencySet

\* C3: with at least minimum candidates, ensure_minimum_stories returns the
\* first min(len(candidates), maximum) candidates in their order, and no
\* emergency story.
C3_FirstCandidatesInOrder ==
  (GuaranteeReturned /\ Len(processed_articles[2]) >= min_stories)
  => LET n == Min(Len(processed_articles[2]), max_stories)
     IN /\ Len(final_stories[2]) = n
        /\ \A i \in 1..n : final_stories[2][i] = processed_articles[2][i]
        /\ \A i \in 1..n : final_stories[2][i] \notin EmergencySet

\* Six candidates, minimum 3, maximum 5: the first five come back.
C3_Witness ==
  /\ GuaranteeReturned
  /\ Len(processed_articles[2]) = 6
  /\ min_stories = 3 /\ max_stories = 5
  /\ Len(final_stories[2]) = 5

\* C4: with k < minimum candidates and minimum - k <= len(EMERGENCY_STORIES),
\* ensure_minimum_stories returns the k candidates in their order followed by
\* minimum - k emergency stories, the whole cut to maximum: the candidates
\* come first, so none is dropped in favour of an emergency story.
C4_CandidatesThenEmergency ==
  (/\ GuaranteeReturned
   /\ Len(processed_articles[2]) < min_stories
   /\ min_stories - Len(processed_articles[2]) <= Len(EMERGENCY_STORIES))
  => LET k == Len(processed_articles[2])
         n == Min(min_stories, max_stories)
     IN /\ Len(final_stories[2]) = n
        /\ \A i \in 1..n :
             IF i <= k THEN final_stories[2][i] = processed_articles[2][i]
             ELSE final_stories[2][i] \in EmergencySet

\* Two candidates, minimum 4, maximum 5: the two, then two emergency stories.
C4_Witness ==
  /\ GuaranteeReturned
  /\ Len(processed_articles[2]) = 2
  /\ min_stories = 4 /\ max_stories = 5
  /\ Len(final_stories[2]) = 4
  /\ final_stories[2][2] = processed_articles[2][2]
  /\ final_stories[2][3] \in EmergencySet

\* The direct apply_amulya_filter call has returned.
FilterReturned == IsList(filtered)

\* The article's text holds a REJECT_KEYWORDS entry or a CRISIS_PATTERNS entry.
DenylistHit(a) ==
  LET text == full_text(a)
  IN \/ \E i \in 1..Len(REJECT_KEYWORDS) : Substring(REJECT_KEYWORDS[i], text)
     \/ \E i \in 1..Len(CRISIS_PATTERNS) : Substring(CRISIS_PATTERNS[i], text)

\* C5: an article apply_amulya_filter keeps has a non-empty category list,
\* and no REJECT_KEYWORDS entry and no crisis pattern occurs in its lower-cased
\* title + description + content.
C5_AcceptedIsCategorisedAndSafe ==
  (FilterReturned /\ filtered[2] # <<>>)
  => /\ Len(filtered[2]) = 1
     /\ IsList(filtered[2][1].amulya_categories)
     /\ filtered[2][1].amulya_categories[2] # <<>>
     /\ ~DenylistHit(art)

\* An accepted article with two categories.
C5_Witness ==
  /\ FilterReturned
  /\ filtered[2] # <<>>
  /\ Len(filtered[2][1].amulya_categories[2]) = 2

\* C6: the denylist wins over the categories: an article whose text holds a
\* denylist keyword or a crisis pattern is rejected however many categories
\* it matches.
C6_DenylistTakesPrecedence ==
  (FilterReturned /\ DenylistHit(art)) => filtered[2] = <<>>

\* Scenario 4: "clinical trial success" and "crisis" in one text, rejected.
C6_Witness ==
  /\ FilterReturned
  /\ Substring("clinical trial success", full_text(art))
  /\ Substring("crisis", full_text(art))
  /\ check_category_match(art)[1]
  /\ filtered[2] = <<>>

\* The article's text matches no category keyword.
NoCategory(a) ==
  LET text == full_text(a)
  IN \A i \in 1..Len(CATEGORY_KEYWORDS) :
       \A j \in 1..Len(CATEGORY_KEYWORDS[i].keywords) :
         ~Substring(CATEGORY_KEYWORDS[i].keywords[j], text)

\* The lower-cased title and description of the article.
LowerTitle(a) == lower(Or(get(a, "title", None), Str(""))[2])
LowerDescription(a) == lower(Or(get(a, "description", None), Str(""))[2])

\* The third rule of check_emotional_safety fires on the article.
HeadlineRepeated(a) ==
  /\ \/ Substring(LowerTitle(a), LowerDescription(a))
     \/ Substring(LowerDescription(a), LowerTitle(a))
  /\ 2 * Len(LowerDescription(a)) < 3 * Len(LowerTitle(a))

\* C7 as stated: an article matching no category is rejected, with the reason
\* "No matching category" whenever it holds no negative keyword; and that is
\* never the reason of an article rejected as unsafe.
C7_AsStated ==
  FilterReturned
  => /\ NoCategory(art) => filtered[2] = <<>>
     /\ (NoCategory(art) /\ ~DenylistHit(art)) => reasons = <<"No matching category">>
     /\ DenylistHit(art) => reasons # <<"No matching category">>

\* C7, amended: an article matching no category is rejected even without a
\* negative keyword; the reason is "No matching category" when
\* check_emotional_safety passes it (no denylist keyword, no crisis pattern,
\* description not repeating the headline), and it is never the reason of an
\* article check_emotional_safety rejects.
C7_NoCategoryReason ==
  FilterReturned
  => /\ NoCategory(art) => filtered[2] = <<>>
     /\ (NoCategory(art) /\ ~DenylistHit(art) /\ ~HeadlineRepeated(art))
          => reasons = <<"No matching category">>
     /\ (DenylistHit(art) \/ HeadlineRepeated(art))
          => /\ filtered[2] = <<>>
             /\ reasons # <<"No matching category">>

\* An article with no category and nothing unsafe, rejected for its category.
C7_Witness ==
  /\ FilterReturned
  /\ NoCategory(art)
  /\ ~DenylistHit(art)
  /\ ~HeadlineRepeated(art)
  /\ Truthy(get(art, "content", None))
  /\ reasons = <<"No matching category">>

\* The direct check_factual_accuracy call has returned.
AccuracyReturned == accuracy # <<>>

\* The SPECULATION_KEYWORDS entries found in the article's text.
SpeculationFound(a) ==
  LET text == full_text(a)
  IN {i \in 1..Len(SPECULATION_KEYWORDS) : Substring(SPECULATION_KEYWORDS[i], text)}

\* C8: check_factual_accuracy rejects every article whose lower-cased text
\* holds at least one speculation keyword, with the reason "Contains
\* speculation or unverified claims", whatever its source, url and other text.
C8_SpeculationRejected ==
  (AccuracyReturned /\ SpeculationFound(art) # {})
  => accuracy = <<FALSE, "Contains speculation or unverified claims">>

\* Scenario 3: the title "Scientists might possibly find cure" in a text of
\* four speculation keywords or more, from a named source with a url.
C8_Witness ==
  /\ AccuracyReturned
  /\ art.title = Str("Scientists might possibly find cure")
  /\ Cardinality(SpeculationFound(art)) >= 4
  /\ art.source = Str("Reuters")
  /\ Truthy(art.url)
  /\ accuracy = <<FALSE, "Contains speculation or unverified claims">>

\* The text holds a CLICKBAIT_PATTERNS entry.
ClickbaitFound(a) ==
  LET text == full_text(a)
  IN \E i \in 1..Len(CLICKBAIT_PATTERNS) : Substring(CLICKBAIT_PATTERNS[i], text)

\* The text holds an UNVERIFIED_MEDICAL_KEYWORDS entry.
MedicalFound(a) ==
  LET text == full_text(a)
  IN \E i \in 1..Len(UNVERIFIED_MEDICAL_KEYWORDS) :
       Substring(UNVERIFIED_MEDICAL_KEYWORDS[i], text)

\* The text holds a VERIFICATION_MARKERS entry.
MarkerFound(a) ==
  LET text == full_text(a)
  IN \E i \in 1..Len(VERIFICATION_MARKERS) : Substring(VERIFICATION_MARKERS[i], text)

\* The source is a name other than "Unknown" and the url is not empty.
SourceAndUrlValid(a) ==
  /\ IsStr(a.source) /\ a.source[2] \notin {"", "Unknown"}
  /\ IsStr(a.url) /\ a.url[2] # ""

\* C9: for an article with no speculation keyword and no clickbait pattern:
\* a medical-claim keyword without a verification marker is rejected with the
\* medical-claim reason; with a verification marker the medical rule does not
\* reject it, and it is accepted when its source and url are valid.
C9_MedicalClaimNeedsMarker ==
  (/\ AccuracyReturned
   /\ SpeculationFound(art) = {}
   /\ ~ClickbaitFound(art)
   /\ MedicalFound(art))
  => IF MarkerFound(art)
       THEN /\ accuracy[2] # "Medical claim without verification markers"
            /\ SourceAndUrlValid(art) => accuracy = <<TRUE, "Factually accurate">>
       ELSE accuracy = <<FALSE, "Medical claim without verification markers">>

\* "Cancer cured" with "peer-reviewed", from a named source: accepted.
C9_Witness ==
  /\ AccuracyReturned
  /\ Substring("cancer cured", full_text(art))
  /\ Substring("peer-reviewed", full_text(art))
  /\ accuracy = <<TRUE, "Factually accurate">>

\* C10: check_factual_accuracy never accepts an article whose source is
\* missing, None, empty or "Unknown", nor one whose url is missing, None or
\* empty, whatever its text.
C10_SourceAndUrlRequired ==
  (AccuracyReturned /\ ~SourceAndUrlValid(art)) => accuracy[1] = FALSE

\* A clean text from the source "Unknown" with a url: rejected for its source.
C10_Witness ==
  /\ AccuracyReturned
  /\ art.source = Str("Unknown")
  /\ Truthy(art.url)
  /\ accuracy = <<FALSE, "Missing legitimate source">>


\* The reasons check_factual_accuracy gives.
AccuracyReasons ==
  {"Contains speculation or unverified claims", "Contains clickbait patterns",
   "Medical claim without verification markers", "Missing legitimate source",
   "Missing source URL", "Factually accurate"}

\* The pair the five rules give for the article, read off its fields alone.
AccuracyOf(a) ==
  IF SpeculationFound(a) # {}
    THEN <<FALSE, "Contains speculation or unverified claims">>
  ELSE IF ClickbaitFound(a)
    THEN <<FALSE, "Contains clickbait patterns">>
  ELSE IF MedicalFound(a) /\ ~MarkerFound(a)
    THEN <<FALSE, "Medical claim without verification markers">>
  ELSE IF ~(IsStr(a.source) /\ a.source[2] \notin {"", "Unknown"})
    THEN <<FALSE, "Missing legitimate source">>
  ELSE IF ~(IsStr(a.url) /\ a.url[2] # "")
    THEN <<FALSE, "Missing source URL">>
  ELSE <<TRUE, "Factually accurate">>

\* C11: check_factual_accuracy is total and deterministic: for every
\* combination of missing, None and empty title, description, content, source
\* and url it returns a (bool, reason) pair and raises nothing, and the pair
\* is the one the article's fields determine, so that two calls on the same
\* article return the same pair.
C11_TotalAndDeterministic ==
  AccuracyReturned
  => /\ Len(accuracy) = 2
     /\ accuracy[1] \in BOOLEAN
     /\ accuracy[2] \in AccuracyReasons
     /\ accuracy = AccuracyOf(art)

\* The article none of whose fields is set: a pair comes back.
C11_Witness ==
  /\ AccuracyReturned
  /\ art.title = None
  /\ art.description = Missing
  /\ art.content = None
  /\ art.source = Missing
  /\ art.url = None
  /\ accuracy = <<FALSE, "Missing legitimate source">>


\* The article as it was fetched, without the fields the pipeline adds.
AsFetched(a) == [a EXCEPT !.amulya_categories = Missing, !.summary = Missing]

\* The articles as they were fetched.
AllAsFetched(articles) == [i \in 1..Len(articles) |-> AsFetched(articles[i])]

\* The article passes check_factual_accuracy, by its fields.
PassesAccuracy(a) == AccuracyOf(a)[1]

\* The article passes the loop body of apply_amulya_filter, by its fields.
PassesSafety(a) == ~NoCategory(a) /\ ~DenylistHit(a) /\ ~HeadlineRepeated(a)

HasCategories(s) ==
  IsList(s.amulya_categories) /\ s.amulya_categories[2] # <<>>

\* C13: in the daily flow every article process_news hands to
\* ensure_minimum_stories has a non-empty category list and passes both
\* classifiers, hence has a source other than "Unknown" and a url; and every
\* story ensure_minimum_stories returns, live or emergency, has a non-empty
\* category list and a summary.
C13_GuaranteeStageArticles ==
  /\ pc = "guarantee"
       => \A i \in 1..Len(processed_articles[2]) :
            LET a == processed_articles[2][i]
            IN /\ HasCategories(a)
               /\ PassesAccuracy(a)
               /\ PassesSafety(a)
               /\ SourceAndUrlValid(a)
  /\ IsList(final_stories)
       => \A i \in 1..Len(final_stories[2]) :
            /\ HasCategories(final_stories[2][i])
            /\ IsStr(final_stories[2][i].summary)

\* One live article and two emergency stories returned by the guarantee step.
C13_Witness ==
  /\ pc = "affirmation"
  /\ Len(processed_articles[2]) = 1
  /\ Len(final_stories[2]) = 3
  /\ final_stories[2][1] = processed_articles[2][1]
  /\ final_stories[2][2] \in EmergencySet


\* The urls of the stories of a list.
UrlsOf(stories) == {stories[i].url : i \in 1..Len(stories)}

\* A run after the first has returned from ensure_minimum_stories.
LaterRunReturned ==
  /\ pc = "affirmation"
  /\ earlier_run # NoRun
  /\ IsList(final_stories)

\* C14 as stated: a candidate whose url the run before returned is left out
\* of the selection; no live story a run returns has a url the run before
\* returned (the emergency stories, which may be forced to repeat, aside).
C14_AsStated ==
  LaterRunReturned
  => \A i \in 1..Len(final_stories[2]) :
       final_stories[2][i] \notin EmergencySet
         => final_stories[2][i].url \notin UrlsOf(earlier_run.stories[2])


\* C15 as stated: every call of the guarantee step appends the identifiers
\* (urls) of exactly the stories it returns to the recorded history, after
\* the entries that were there, which stay as they were.
C15_AsStated ==
  /\ (pc = "affirmation" /\ IsList(final_stories))
       => LET n == Len(final_stories[2])
          IN /\ Len(history) >= n
             /\ \A i \in 1..n :
                  history[Len(history) - n + i] = final_stories[2][i].url
  /\ (earlier_run # NoRun)
       => LET m == Len(earlier_run.stories[2])
          IN /\ Len(history) >= m
             /\ \A i \in 1..m : history[i] = earlier_run.stories[2][i].url

\* The candidates of this run that the run before did not return.
FreshCandidates ==
  SelectSeq(processed_articles[2],
            LAMBDA a : a.url \notin UrlsOf(earlier_run.stories[2]))

\* The emergency stories the run before did not return.
UnusedEmergency ==
  {s \in EmergencySet : s.url \notin UrlsOf(earlier_run.stories[2])}

\* C16 as stated: a second run on the same candidate list returns no live
\* story with a url the first run returned, and, when the emergency stories
\* the first run left unused are enough to fill it, no story at all with such
\* a url.
C16_AsStated ==
  (LaterRunReturned /\ earlier_run.candidates = processed_articles)
  => /\ \A i \in 1..Len(final_stories[2]) :
          final_stories[2][i] \notin EmergencySet
            => final_stories[2][i].url \notin UrlsOf(earlier_run.stories[2])
     /\ Len(FreshCandidates) + Cardinality(UnusedEmergency) >= min_stories
          => UrlsOf(final_stories[2]) \cap UrlsOf(earlier_run.stories[2]) = {}


\* C17 as stated: when minimum minus the number of candidates exceeds the
\* number of emergency stories, ensure_minimum_stories signals an error
\* instead of returning a list shorter than minimum.
C17_AsStated ==
  (/\ pc = "affirmation"
   /\ min_stories <= max_stories
   /\ min_stories - Len(processed_articles[2]) > Len(EMERGENCY_STORIES))
  => ~IsList(final_stories)

\* C18: the emergency stories one call of ensure_minimum_stories adds are
\* drawn without replacement: they are entries of EMERGENCY_STORIES and no
\* two of them are the same story.
C18_EmergencyStoriesDistinct ==
  (GuaranteeReturned /\ Len(processed_articles[2]) < min_stories)
  => LET k == Len(processed_articles[2])
         n == Len(final_stories[2])
     IN \A i \in (k + 1)..n :
          /\ final_stories[2][i] \in EmergencySet
          /\ \A j \in (k + 1)..n : i # j => final_stories[2][i] # final_stories[2][j]

\* No candidate, minimum 5, maximum 5: the five emergency stories, each once.
C18_Witness ==
  /\ GuaranteeReturned
  /\ processed_articles[2] = <<>>
  /\ min_stories = 5 /\ max_stories = 5
  /\ {final_stories[2][i] : i \in 1..Len(final_stories[2])} = EmergencySet


\* The stages of the daily flow that raise in some run.
RaisingStages == {"process_news", "MorningEmailGuardian", "deliver_morning_glow"}

\* C19: no exception leaves a scheduled invocation: whichever stage of
\* sacred_morning_flow_with_accuracy raises an Exception, the decorated call
\* ends and returns None; a run in which nothing raises returns the stories.
C19_NoExceptionPropagates ==
  /\ raised \in RaisingStages \cup {""}
  /\ raised # "" => (pc = "done" /\ returned = None)
  /\ (pc = "done" /\ raised = "") => returned = final_stories

\* process_news raised (a None title in generate_summaries_batch) and the
\* decorated call returned None.
C19_Witness ==
  /\ pc = "done"
  /\ raised = "process_news"
  /\ returned = None

\* preview_email.html has been written in this run.
PreviewWritten == preview[1] = "html"

\* The SMTP server has accepted the email.
EmailSent == sent[1] = "html"

\* C20 as stated: every daily run ends having sent the email or written
\* preview_email.html, the runs in which a stage raises included.
C20_AsStated == pc = "done" => (EmailSent \/ PreviewWritten)


\* The strings _generate_fallback_summary builds, one per warm_templates entry.
FallbackSummaries == {Str("warm_templates:" \o c) : c \in warm_templates}

\* C21: generate_summary does not raise for an article both classifiers
\* accepted, and with the client absent, its call raising or its text empty
\* the summary is a string of the fallback method.
C21_SummaryFallsBack ==
  /\ raised # "generate_summary"
  /\ (IsList(filtered) /\ filtered[2] # <<>>) =>
       /\ generate_summary(filtered[2][1], FALSE, "raises") \in FallbackSummaries
       /\ \A outcome \in {"raises", "empty"} :
            generate_summary(filtered[2][1], TRUE, outcome) \in FallbackSummaries
  /\ IsList(processed_articles) =>
       /\ IsStr(processed_articles[2][1].summary)
       /\ ~client => processed_articles[2][1].summary \in FallbackSummaries

\* An accepted article whose content is None got a fallback summary with the
\* client absent.
C21_Witness ==
  /\ IsList(processed_articles)
  /\ ~client
  /\ art.content = None
  /\ processed_articles[2][1].summary \in FallbackSummaries


\* The articles of the fetches that succeeded up to query n, in the order of
\* the queries, NewsAPI before the RSS feed.
RECURSIVE SucceededArticles(_)
SucceededArticles(n) ==
  IF n = 0 THEN <<>>
  ELSE SucceededArticles(n - 1)
         \o (IF IsList(responses.fetches[n].newsapi) THEN responses.fetches[n].newsapi[2] ELSE <<>>)
         \o (IF IsList(responses.fetches[n].rss) THEN responses.fetches[n].rss[2] ELSE <<>>)

\* The url is a string starting with http that answers the HEAD request.
UrlAnswers(a) ==
  /\ IsStr(a.url)
  /\ Len(a.url[2]) >= 4 /\ SubSeq(a.url[2], 1, 4) = "http"
  /\ a.url \in responses.up

\* C22: whatever fetches fail, fetch_all_sources makes both fetches of every
\* query, in order, and returns the articles of all the fetches that
\* succeeded whose url validates.
C22_FailedFetchDoesNotAbort ==
  pc = "accuracy"
  => /\ Len(issued) = 2 * Len(responses.fetches)
     /\ \A i \in 1..Len(responses.fetches) :
          /\ issued[2 * i - 1] = <<i, "newsapi">>
          /\ issued[2 * i] = <<i, "rss">>
     /\ raw_articles
          = List(SelectSeq(SucceededArticles(Len(responses.fetches)), UrlAnswers))

\* Both requests of the first query fail and the second query's article is
\* returned.
C22_Witness ==
  /\ pc = "accuracy"
  /\ Len(responses.fetches) = 2
  /\ responses.fetches[1].newsapi = <<"raises">>
  /\ responses.fetches[1].rss = <<"raises">>
  /\ responses.fetches[2].newsapi = <<"error">>
  /\ Len(issued) = 4
  /\ raw_articles = List(<<ArticleAccepted>>)


\* C23: a delivery failure is not fatal: without SMTP credentials, or when
\* the SMTP session raises, send_email returns False and raises nothing, and
\* the flow returns the stories ensure_minimum_stories chose.
C23_DeliveryFailureNotFatal ==
  /\ PreviewWritten => raised = ""
  /\ (pc \in {"return", "done"} /\ raised = "")
       => /\ smtp = "unset" => success = FALSE
          /\ success = FALSE => sent = None
          /\ (pc = "done" /\ success = FALSE)
               => /\ IsList(final_stories)
                  /\ returned = final_stories
                  /\ Len(final_stories[2]) \in FLOW_MINIMUM..FLOW_MAXIMUM

\* The credentials were given, the SMTP session raised, and the flow
\* returned the stories.
C23_Witness ==
  /\ pc = "done"
  /\ raised = ""
  /\ smtp = "set"
  /\ success = FALSE
  /\ sent = None
  /\ returned = final_stories
  /\ IsList(final_stories)


\* The reasons of the five checks of check_factual_accuracy, in their order.
CheckReasons ==
  <<"Contains speculation or unverified claims", "Contains clickbait patterns",
    "Medical claim without verification markers", "Missing legitimate source",
    "Missing source URL">>

\* The checks that fire on the article, by their position in that order.
ChecksFiring(a) ==
  {i \in 1..5 :
     \/ i = 1 /\ SpeculationFound(a) # {}
     \/ i = 2 /\ ClickbaitFound(a)
     \/ i = 3 /\ MedicalFound(a) /\ ~MarkerFound(a)
     \/ i = 4 /\ (~Truthy(a.source) \/ a.source = Str("Unknown"))
     \/ i = 5 /\ ~Truthy(a.url)}

\* C24: check_factual_accuracy accepts exactly when none of its five checks
\* fires, and otherwise gives the reason of the first check that fires in the
\* order speculation, clickbait, unverified medical claim, source, url.
C24_FirstFiringCheckReported ==
  AccuracyReturned
  => LET firing == ChecksFiring(art)
     IN /\ accuracy[1] = (firing = {})
        /\ firing = {} => accuracy[2] = "Factually accurate"
        /\ firing # {}
             => accuracy[2] = CheckReasons[CHOOSE i \in firing :
                                             \A j \in firing : i <= j]

\* An article with a speculation keyword and no source is reported as
\* speculation.
C24_Witness ==
  /\ AccuracyReturned
  /\ {1, 4} \subseteq ChecksFiring(art)
  /\ art.source = Missing
  /\ accuracy = <<FALSE, "Contains speculation or unverified claims">>


\* The categories that have a trigger phrase in the article's text, in the
\* order of CATEGORY_KEYWORDS.
MatchedCategories(a) ==
  LET text == full_text(a)
      matched == SelectSeq([i \in 1..Len(CATEGORY_KEYWORDS) |-> i],
                   LAMBDA i : \E j \in 1..Len(CATEGORY_KEYWORDS[i].keywords) :
                                Substring(CATEGORY_KEYWORDS[i].keywords[j], text))
  IN [k \in 1..Len(matched) |-> CATEGORY_KEYWORDS[matched[k]].category]

\* The article is as both filters leave it: with all its matched categories
\* attached when both accept it, else as it was fetched.
AsFiltered(a) ==
  LET fetched == AsFetched(a)
  IN IF PassesAccuracy(fetched) /\ PassesSafety(fetched)
       THEN a = [fetched EXCEPT
                   !.amulya_categories = List(MatchedCategories(fetched))]
       ELSE a = fetched

\* C25: apply_amulya_filter changes an article only when it accepts it: the
\* accepted article gains amulya_categories, the list of all the categories
\* with a trigger phrase in its text, and nothing else; a rejected article
\* stays as it was, and filter_accurate_articles changes no article.
C25_OnlyAcceptedArticlesChange ==
  /\ pc = "safety"
       => /\ raw_articles[2] = AllAsFetched(raw_articles[2])
          /\ accurate_articles[2] = AllAsFetched(accurate_articles[2])
  /\ pc = "summarize"
       => /\ \A i \in 1..Len(raw_articles[2]) : AsFiltered(raw_articles[2][i])
          /\ \A i \in 1..Len(accurate_articles[2]) :
               \E j \in 1..Len(raw_articles[2]) :
                 accurate_articles[2][i] = raw_articles[2][j]
          /\ \A i \in 1..Len(safe_articles[2]) :
               /\ \E j \in 1..Len(raw_articles[2]) :
                    safe_articles[2][i] = raw_articles[2][j]
               /\ HasCategories(safe_articles[2][i])

\* The safety filter has accepted one article, which now carries four
\* categories, and rejected another, which is as it was fetched.
C25_Witness ==
  /\ pc = "summarize"
  /\ Len(accurate_articles[2]) = 2
  /\ accurate_articles[2][1] = ArticleCrisis
  /\ AsFetched(accurate_articles[2][2]) = ArticleAccepted
  /\ Len(accurate_articles[2][2].amulya_categories[2]) = 4
  /\ safe_articles[2] = <<accurate_articles[2][2]>>


\* C26: check_emotional_safety has a third rule: an article without a
\* denylist hit whose lower-cased title is within its description, or its
\* description within its title, and with 2*len(description) < 3*len(title),
\* is rejected with "Description repeats headline", and no other article gets
\* that reason; so an article with a title and no description is rejected
\* whatever category it matches.
C26_DescriptionRepeatsHeadline ==
  FilterReturned
  => /\ (~DenylistHit(art) /\ HeadlineRepeated(art))
          => /\ filtered[2] = <<>>
             /\ reasons = <<"Description repeats headline">>
     /\ reasons = <<"Description repeats headline">>
          => (~DenylistHit(art) /\ HeadlineRepeated(art))
     /\ (LowerTitle(art) # "" /\ ~Truthy(get(art, "description", None)))
          => filtered[2] = <<>>

\* An article with a title that matches a category and no description,
\* rejected by the third rule.
C26_Witness ==
  /\ FilterReturned
  /\ art.title = Str("Reforestation Gains")
  /\ art.description = Missing
  /\ ~NoCategory(art)
  /\ ~DenylistHit(art)
  /\ filtered[2] = <<>>
  /\ reasons = <<"Description repeats headline">>


\* C27: REJECT_KEYWORDS entries are looked for as substrings, so an article
\* whose text holds the category trigger "heartwarming" (which holds "war")
\* or "conflict resolution" (which holds "conflict") is always rejected by
\* apply_amulya_filter, for a stress keyword.
C27_TriggersWithDenylistWords ==
  (FilterReturned
   /\ LET text == full_text(art)
      IN Substring("heartwarming", text) \/ Substring("conflict resolution", text))
  => /\ ~NoCategory(art)
     /\ filtered[2] = <<>>
     /\ reasons \in {<<"Contains stress keyword: " \o REJECT_KEYWORDS[i]>> :
                       i \in 1..Len(REJECT_KEYWORDS)}

\* "Heartwarming Rescue" with nothing else in the text, rejected for "war".
C27_Witness ==
  /\ FilterReturned
  /\ art.title = Str("Heartwarming Rescue")
  /\ art.description = Str("Volunteers planted trees across the valley")
  /\ art.content = Missing
  /\ filtered[2] = <<>>
  /\ reasons = <<"Contains stress keyword: war">>


\* C28: verification markers do not rescue clickbait: "miracle cure" is a
\* CLICKBAIT_PATTERNS entry and no UNVERIFIED_MEDICAL_KEYWORDS entry, and an
\* article whose text holds it is rejected by check_factual_accuracy, with
\* the clickbait reason when it holds no speculation keyword, whether or not
\* it holds a verification marker and has a source and a url.
C28_MarkersDoNotRescueClickbait ==
  /\ \E i \in 1..Len(CLICKBAIT_PATTERNS) : CLICKBAIT_PATTERNS[i] = "miracle cure"
  /\ \A i \in 1..Len(UNVERIFIED_MEDICAL_KEYWORDS) :
       UNVERIFIED_MEDICAL_KEYWORDS[i] # "miracle cure"
  /\ (AccuracyReturned /\ Substring("miracle cure", full_text(art)))
       => /\ accuracy[1] = FALSE
          /\ SpeculationFound(art) = {}
               => accuracy = <<FALSE, "Contains clickbait patterns">>

\* "Miracle cure" next to the marker "clinical trial", with a source and a
\* url: rejected as clickbait.
C28_Witness ==
  /\ AccuracyReturned
  /\ Substring("miracle cure", full_text(art))
  /\ MarkerFound(art)
  /\ SourceAndUrlValid(art)
  /\ accuracy = <<FALSE, "Contains clickbait patterns">>


\* C29: deliver_morning_glow writes preview_email.html before send_email is
\* called: a send is attempted, or skipped for missing credentials, only with
\* the preview written, so a failed or skipped send leaves the preview
\* behind, what is sent is what was written, and when the write fails no
\* send is attempted.
C29_PreviewBeforeSend ==
  /\ pc = "send" => (PreviewWritten /\ sent = None /\ success = None)
  /\ (pc \in {"return", "done"} /\ raised = "")
       => /\ PreviewWritten
          /\ preview = Html(generate_html_email(final_stories[2], affirmation))
          /\ success => sent = preview
          /\ ~success => sent = None
  /\ EmailSent => PreviewWritten
  /\ raised # "" => (sent = None /\ success = None)

\* The write of the preview failed: no file, no send.
C29_Witness ==
  /\ pc = "done"
  /\ raised = "deliver_morning_glow"
  /\ IsList(final_stories)
  /\ ~PreviewWritten
  /\ sent = None
  /\ success = None


\* C30: ensure_minimum_stories leaves its inputs as they were: over any
\* sequence of calls the caller's candidate list keeps its elements in their
\* order and EMERGENCY_STORIES keeps its five stories in their order, so a
\* later call that needs emergency stories can still draw every one of them,
\* whatever the calls before it returned.
C30_InputsUnchanged ==
  /\ [](emergency_stories = EMERGENCY_STORIES)
  /\ [][pc = "guarantee"
          => /\ processed_articles' = processed_articles
             /\ emergency_stories' = emergency_stories]_vars
  /\ []((pc = "guarantee" /\ earlier_run # NoRun)
          => /\ processed_articles = earlier_run.candidates
             /\ Len(processed_articles[2]) < min_stories
                  => \A story \in EmergencySet :
                       \E selection \in emergency_selections(processed_articles[2],
                                                             min_stories) :
                         \E i \in 1..Len(selection) : selection[i] = story)

\* A second call on the same two candidates, after a first call that drew an
\* emergency story: the list and the pool are as before, and the second call
\* drew another story.
C30_Witness ==
  /\ pc = "affirmation"
  /\ earlier_run # NoRun
  /\ Len(processed_articles[2]) = 2
  /\ processed_articles = earlier_run.candidates
  /\ emergency_stories = EMERGENCY_STORIES
  /\ Len(final_stories[2]) = 3
  /\ earlier_run.stories[2][3] = EMERGENCY_STORY_1
  /\ final_stories[2][3] = EMERGENCY_STORY_5

=============================================================================
